---- MODULE Spec2Model ----
(***************************************************************************)
(* Model of src/common.rs of tokio-dns: the four entry points              *)
(* tcp_connect_par, tcp_connect_seq, tcp_listen_seq and udp_bind_seq, all  *)
(* built on if_host_resolve.  One behaviour of the model is one call of    *)
(* one entry point, from the call to the completion of the returned        *)
(* IoFuture.  The resolver, the socket layer (LoopHandle) and to_endpoint  *)
(* are the environment: their answers are drawn from small sets.           *)
(***************************************************************************)
EXTENDS Naturals, Sequences, FiniteSets

(* ---------------------------------------------------------------------- *)
(* Bounds and value sets                                                   *)
(* ---------------------------------------------------------------------- *)

\* longest address list the resolver returns
MaxAddrs == 3

IpAddrs == {"10.0.0.1", "10.0.0.2"}

Ports == {80, 443}

HostNames == {"example.test"}

EntryPoints == {"tcp_connect_par", "tcp_connect_seq", "tcp_listen_seq", "udp_bind_seq"}

SeqEntryPoints == {"tcp_connect_seq", "tcp_listen_seq", "udp_bind_seq"}

\* all address lists of length 0..MaxAddrs
AddrLists == UNION {[1..n -> IpAddrs] : n \in 0..MaxAddrs}

\* what ep.to_endpoint() can return
Endpoint ==
    {[tag |-> "Err", host |-> "", ip |-> "", port |-> 0]}
    \cup {[tag |-> "Host", host |-> h, ip |-> "", port |-> p] : h \in HostNames, p \in Ports}
    \cup {[tag |-> "SocketAddr", host |-> "", ip |-> i, port |-> p] : i \in IpAddrs, p \in Ports}

SocketAddrNewDropsPort(ip_addr, port) == [ip |-> ip_addr, port |-> 0]

\* SocketAddr::new(ip_addr, port)
SocketAddrNew(ip_addr, port) == [ip |-> ip_addr, port |-> port]

NoAddr == [ip |-> "", port |-> 0]

(* ---------------------------------------------------------------------- *)
(* Errors and outcomes                                                     *)
(* ---------------------------------------------------------------------- *)

\* the error of a failed to_endpoint()
ErrToEndpoint == "to_endpoint failed"

\* the error of a failed resolver future
ErrResolve == "resolve failed"

\* the io::Error a failed socket operation carries
ErrSocketOp == "socket operation failed"

ErrNoAddresses == "resolve returned no addresses"

ErrAllFailed == "all of the connections attempts failed"

NoOutcome == [kind |-> "none", addr |-> NoAddr, error |-> "", attempt |-> 0]

\* the future completed with the socket of attempt n
OkOutcome(a, n) == [kind |-> "ok", addr |-> a, error |-> "", attempt |-> n]

\* the future completed with error e (of attempt n, 0 when no attempt made it)
ErrOutcome(e, n) == [kind |-> "err", addr |-> NoAddr, error |-> e, attempt |-> n]

(* ---------------------------------------------------------------------- *)
(* State                                                                   *)
(* ---------------------------------------------------------------------- *)

VARIABLES
    entry,          \* the entry point called
    ep,             \* the result of ep.to_endpoint()
    opResult,       \* opResult[n]: the socket layer's answer to the n-th invocation
    pc,             \* position of the call in its pipeline
    resolverCalls,  \* host names resolver.resolve was called with, in order
    addrs,          \* the Vec<IpAddr> the resolver produced
    opCalls,        \* socket operations invoked so far: [op, addr], in order
    attempts,       \* state of the future each invocation returned
    continuations,  \* addresses held by the or_else closures not yet run
    selectCalls,    \* sizes of the attempt sets select_all_ok was called with
    resolution,     \* how the resolver future completed: "none", "ok", "err"
    outcome         \* what the returned IoFuture completed with

vars == <<entry, ep, opResult, pc, resolverCalls, addrs, opCalls, attempts,
          continuations, selectCalls, resolution, outcome>>

\* the socket operation each entry point is bound to
OpOf(e) ==
    CASE e = "tcp_connect_par" -> "tcp_connect"
      [] e = "tcp_connect_seq" -> "tcp_connect"
      [] e = "tcp_listen_seq"  -> "tcp_listen"
      [] e = "udp_bind_seq"    -> "udp_bind"

Init ==
    /\ entry \in EntryPoints
    /\ ep \in Endpoint
    /\ opResult \in [1..MaxAddrs -> {"ok", "err"}]
    /\ pc = "start"
    /\ resolverCalls = <<>>
    /\ addrs = <<>>
    /\ opCalls = <<>>
    /\ attempts = <<>>
    /\ continuations = <<>>
    /\ selectCalls = <<>>
    /\ resolution = "none"
    /\ outcome = NoOutcome

(* ---------------------------------------------------------------------- *)
(* if_host_resolve: normalisation and the literal/host fork                *)
(* ---------------------------------------------------------------------- *)

\* one invocation of the entry point's socket operation on addr
Invocation(addr) == [op |-> OpOf(entry), addr |-> addr]

IfHostResolveErrAfterResolve ==
    /\ pc = "start"
    /\ ep.tag = "Err"
    /\ resolverCalls' = Append(resolverCalls, ep.host)
    /\ outcome' = ErrOutcome(ErrToEndpoint, 0)
    /\ pc' = "done"
    /\ UNCHANGED <<entry, ep, opResult, addrs, opCalls, attempts,
                   continuations, selectCalls, resolution>>

\* Err(e) => return failed(e).boxed()
IfHostResolveErr ==
    /\ pc = "start"
    /\ ep.tag = "Err"
    /\ outcome' = ErrOutcome(ErrToEndpoint, 0)
    /\ pc' = "done"
    /\ UNCHANGED <<entry, ep, opResult, resolverCalls, addrs, opCalls, attempts,
                   continuations, selectCalls, resolution>>

IfHostResolveHostTwice ==
    /\ pc = "start"
    /\ ep.tag = "Host"
    /\ resolverCalls' = resolverCalls \o <<ep.host, ep.host>>
    /\ pc' = "resolving"
    /\ UNCHANGED <<entry, ep, opResult, addrs, opCalls, attempts,
                   continuations, selectCalls, resolution, outcome>>

\* Endpoint::Host(host, port) => resolver.resolve(host).and_then(..)
IfHostResolveHost ==
    /\ pc = "start"
    /\ ep.tag = "Host"
    /\ resolverCalls' = Append(resolverCalls, ep.host)
    /\ pc' = "resolving"
    /\ UNCHANGED <<entry, ep, opResult, addrs, opCalls, attempts,
                   continuations, selectCalls, resolution, outcome>>

IfHostResolveSocketAddrResolving ==
    /\ pc = "start"
    /\ ep.tag = "SocketAddr"
    /\ resolverCalls' = Append(resolverCalls, ep.ip)
    /\ opCalls' = Append(opCalls, Invocation(SocketAddrNew(ep.ip, ep.port)))
    /\ attempts' = Append(attempts, "pending")
    /\ pc' = "direct"
    /\ UNCHANGED <<entry, ep, opResult, addrs,
                   continuations, selectCalls, resolution, outcome>>

\* Endpoint::SocketAddr(ref addr) => elsef(handle, addr)
IfHostResolveSocketAddr ==
    /\ pc = "start"
    /\ ep.tag = "SocketAddr"
    /\ opCalls' = Append(opCalls, Invocation(SocketAddrNew(ep.ip, ep.port)))
    /\ attempts' = Append(attempts, "pending")
    /\ pc' = "direct"
    /\ UNCHANGED <<entry, ep, opResult, resolverCalls, addrs,
                   continuations, selectCalls, resolution, outcome>>

DirectCompleteWrapsError ==
    /\ pc = "direct"
    /\ attempts[1] = "pending"
    /\ attempts' = [attempts EXCEPT ![1] = opResult[1]]
    /\ outcome' = IF opResult[1] = "ok"
                  THEN OkOutcome(opCalls[1].addr, 1)
                  ELSE ErrOutcome(ErrAllFailed, 0)
    /\ pc' = "done"
    /\ UNCHANGED <<entry, ep, opResult, resolverCalls, addrs, opCalls,
                   continuations, selectCalls, resolution>>

\* the future elsef returned completes; its result is the call's result
DirectComplete ==
    /\ pc = "direct"
    /\ attempts[1] = "pending"
    /\ attempts' = [attempts EXCEPT ![1] = opResult[1]]
    /\ outcome' = IF opResult[1] = "ok"
                  THEN OkOutcome(opCalls[1].addr, 1)
                  ELSE ErrOutcome(ErrSocketOp, 1)
    /\ pc' = "done"
    /\ UNCHANGED <<entry, ep, opResult, resolverCalls, addrs, opCalls,
                   continuations, selectCalls, resolution>>

ResolveErrAsEmptyList ==
    /\ pc = "resolving"
    /\ resolution' = "err"
    /\ outcome' = ErrOutcome(ErrNoAddresses, 0)
    /\ pc' = "done"
    /\ UNCHANGED <<entry, ep, opResult, resolverCalls, addrs, opCalls, attempts,
                   continuations, selectCalls>>

\* the resolver future fails: and_then passes the error on, func is not called
ResolveErr ==
    /\ pc = "resolving"
    /\ resolution' = "err"
    /\ outcome' = ErrOutcome(ErrResolve, 0)
    /\ pc' = "done"
    /\ UNCHANGED <<entry, ep, opResult, resolverCalls, addrs, opCalls, attempts,
                   continuations, selectCalls>>

(* ---------------------------------------------------------------------- *)
(* The sequential strategy: tcp_connect_seq, tcp_listen_seq, udp_bind_seq  *)
(* ---------------------------------------------------------------------- *)

ChainAllEager(ips) == [started |-> ips, deferred |-> <<>>]

ChainDropsLast(ips) ==
    IF ips = <<>>
    THEN [started |-> <<>>, deferred |-> <<>>]
    ELSE [started |-> <<Head(ips)>>, deferred |-> SubSeq(ips, 2, Len(ips) - 1)]

\* the for loop over ip_addrs: the first address is handed to the socket
\* operation at once, every later one is captured by an or_else closure
Chain(ips) ==
    IF ips = <<>>
    THEN [started |-> <<>>, deferred |-> <<>>]
    ELSE [started |-> <<Head(ips)>>, deferred |-> Tail(ips)]

ChainFutureAllFailed(started) ==
    IF started = <<>> THEN ErrOutcome(ErrAllFailed, 0) ELSE NoOutcome

\* match prev.take(): the chain when there is one, else a future that has
\* already failed
ChainFuture(started) ==
    IF started = <<>> THEN ErrOutcome(ErrNoAddresses, 0) ELSE NoOutcome

\* the resolver future succeeds with ips and func builds the chain
ResolveOkSeq ==
    /\ pc = "resolving"
    /\ entry \in SeqEntryPoints
    /\ \E ips \in AddrLists :
        LET c == Chain(ips) IN
        /\ addrs' = ips
        /\ resolution' = "ok"
        /\ opCalls' = opCalls \o
              [i \in 1..Len(c.started) |-> Invocation(SocketAddrNew(c.started[i], ep.port))]
        /\ attempts' = attempts \o [i \in 1..Len(c.started) |-> "pending"]
        /\ continuations' = c.deferred
        /\ outcome' = ChainFuture(c.started)
        /\ pc' = IF ChainFuture(c.started) = NoOutcome THEN "chain" ELSE "done"
    /\ UNCHANGED <<entry, ep, opResult, resolverCalls, selectCalls>>

OrElseContinuesAfterOk(n, r, conts) ==
    IF conts # <<>>
    THEN [next |-> <<Head(conts)>>, deferred |-> Tail(conts), outcome |-> NoOutcome]
    ELSE IF r = "ok"
         THEN [next |-> <<>>, deferred |-> <<>>, outcome |-> OkOutcome(opCalls[n].addr, n)]
         ELSE [next |-> <<>>, deferred |-> <<>>, outcome |-> ErrOutcome(ErrSocketOp, n)]

OrElseAggregates(n, r, conts) ==
    IF r = "ok"
    THEN [next |-> <<>>, deferred |-> <<>>, outcome |-> OkOutcome(opCalls[n].addr, n)]
    ELSE IF conts # <<>>
         THEN [next |-> <<Head(conts)>>, deferred |-> Tail(conts), outcome |-> NoOutcome]
         ELSE [next |-> <<>>, deferred |-> <<>>, outcome |-> ErrOutcome(ErrAllFailed, 0)]

OrElseStopOnErr(n, r, conts) ==
    IF r = "ok"
    THEN [next |-> <<>>, deferred |-> <<>>, outcome |-> OkOutcome(opCalls[n].addr, n)]
    ELSE [next |-> <<>>, deferred |-> <<>>, outcome |-> ErrOutcome(ErrSocketOp, n)]

\* prev.or_else(move |_| handle.op(&addr)): attempt n completed with r while
\* the closures of conts are still waiting
OrElse(n, r, conts) ==
    IF r = "ok"
    THEN [next |-> <<>>, deferred |-> <<>>, outcome |-> OkOutcome(opCalls[n].addr, n)]
    ELSE IF conts # <<>>
         THEN [next |-> <<Head(conts)>>, deferred |-> Tail(conts), outcome |-> NoOutcome]
         ELSE [next |-> <<>>, deferred |-> <<>>, outcome |-> ErrOutcome(ErrSocketOp, n)]

\* the attempt in flight completes
SeqAttemptComplete ==
    /\ pc = "chain"
    /\ \E n \in 1..Len(attempts) :
        /\ attempts[n] = "pending"
        /\ LET o == OrElse(n, opResult[n], continuations) IN
           /\ attempts' = [attempts EXCEPT ![n] = opResult[n]] \o
                 [i \in 1..Len(o.next) |-> "pending"]
           /\ opCalls' = opCalls \o
                 [i \in 1..Len(o.next) |-> Invocation(SocketAddrNew(o.next[i], ep.port))]
           /\ continuations' = o.deferred
           /\ outcome' = o.outcome
           /\ pc' = IF o.outcome = NoOutcome THEN "chain" ELSE "done"
    /\ UNCHANGED <<entry, ep, opResult, resolverCalls, addrs, selectCalls, resolution>>

(* ---------------------------------------------------------------------- *)
(* The three sequential functions, each translated from its own text and   *)
(* run to completion as a function of the resolved list and the answers    *)
(* of the socket layer                                                     *)
(* ---------------------------------------------------------------------- *)

RECURSIVE TcpConnectSeqChain(_, _, _, _)
\* tcp_connect_seq: the chain its loop builds, run from the n-th address on with
\* the socket layer answering res: handle.tcp_connect(&addr), and on failure the
\* or_else closure of the next address
TcpConnectSeqChain(ips, port, res, n) ==
    LET addr == SocketAddrNew(ips[n], port) IN
    IF res[n] = "ok"
    THEN [calls |-> <<[op |-> "tcp_connect", addr |-> addr]>>, outcome |-> OkOutcome(addr, n)]
    ELSE IF n < Len(ips)
         THEN LET rest == TcpConnectSeqChain(ips, port, res, n + 1) IN
              [calls |-> <<[op |-> "tcp_connect", addr |-> addr]>> \o rest.calls,
               outcome |-> rest.outcome]
         ELSE [calls |-> <<[op |-> "tcp_connect", addr |-> addr]>>,
               outcome |-> ErrOutcome(ErrSocketOp, n)]

\* tcp_connect_seq: the closure handed to if_host_resolve, run to completion
TcpConnectSeqFunc(ips, port, res) ==
    IF ips = <<>>
    THEN [calls |-> <<>>, outcome |-> ErrOutcome(ErrNoAddresses, 0)]
    ELSE TcpConnectSeqChain(ips, port, res, 1)

RECURSIVE TcpListenSeqChain(_, _, _, _)
\* tcp_listen_seq: the chain its loop builds, run from the n-th address on with
\* the socket layer answering res: handle.tcp_listen(&addr), and on failure the
\* or_else closure of the next address
TcpListenSeqChain(ips, port, res, n) ==
    LET addr == SocketAddrNew(ips[n], port) IN
    IF res[n] = "ok"
    THEN [calls |-> <<[op |-> "tcp_listen", addr |-> addr]>>, outcome |-> OkOutcome(addr, n)]
    ELSE IF n < Len(ips)
         THEN LET rest == TcpListenSeqChain(ips, port, res, n + 1) IN
              [calls |-> <<[op |-> "tcp_listen", addr |-> addr]>> \o rest.calls,
               outcome |-> rest.outcome]
         ELSE [calls |-> <<[op |-> "tcp_listen", addr |-> addr]>>,
               outcome |-> ErrOutcome(ErrSocketOp, n)]

\* tcp_listen_seq: the closure handed to if_host_resolve, run to completion
TcpListenSeqFunc(ips, port, res) ==
    IF ips = <<>>
    THEN [calls |-> <<>>, outcome |-> ErrOutcome(ErrNoAddresses, 0)]
    ELSE TcpListenSeqChain(ips, port, res, 1)

RECURSIVE UdpBindSeqChainStopsOnErr(_, _, _, _)
UdpBindSeqChainStopsOnErr(ips, port, res, n) ==
    LET addr == SocketAddrNew(ips[n], port) IN
    IF res[n] = "ok"
    THEN [calls |-> <<[op |-> "udp_bind", addr |-> addr]>>, outcome |-> OkOutcome(addr, n)]
    ELSE [calls |-> <<[op |-> "udp_bind", addr |-> addr]>>, outcome |-> ErrOutcome(ErrSocketOp, n)]

RECURSIVE UdpBindSeqChain(_, _, _, _)
\* udp_bind_seq: the chain its loop builds, run from the n-th address on with
\* the socket layer answering res: handle.udp_bind(&addr), and on failure the
\* or_else closure of the next address
UdpBindSeqChain(ips, port, res, n) ==
    LET addr == SocketAddrNew(ips[n], port) IN
    IF res[n] = "ok"
    THEN [calls |-> <<[op |-> "udp_bind", addr |-> addr]>>, outcome |-> OkOutcome(addr, n)]
    ELSE IF n < Len(ips)
         THEN LET rest == UdpBindSeqChain(ips, port, res, n + 1) IN
              [calls |-> <<[op |-> "udp_bind", addr |-> addr]>> \o rest.calls,
               outcome |-> rest.outcome]
         ELSE [calls |-> <<[op |-> "udp_bind", addr |-> addr]>>,
               outcome |-> ErrOutcome(ErrSocketOp, n)]

\* udp_bind_seq: the closure handed to if_host_resolve, run to completion
UdpBindSeqFunc(ips, port, res) ==
    IF ips = <<>>
    THEN [calls |-> <<>>, outcome |-> ErrOutcome(ErrNoAddresses, 0)]
    ELSE UdpBindSeqChain(ips, port, res, 1)

(* ---------------------------------------------------------------------- *)
(* The parallel strategy: tcp_connect_par                                  *)
(* ---------------------------------------------------------------------- *)

FutsFirstOnly(ips) == IF ips = <<>> THEN <<>> ELSE <<Head(ips)>>

\* ip_addrs.into_iter().map(..): one attempt per resolved address, in order
Futs(ips) == ips

SelectAllOkLeavesPending(atts, i, r) ==
    LET a == [atts EXCEPT ![i] = r] IN
    [attempts |-> a,
     result |-> IF r = "ok" THEN "ok"
                ELSE IF \E j \in 1..Len(a) : a[j] = "pending" THEN "pending" ELSE "err"]

\* the state of the race after attempt i of atts completed with r: first
\* success wins and the attempts still pending are dropped; the race fails
\* when the last pending attempt fails
SelectAllOk(atts, i, r) ==
    IF r = "ok"
    THEN [attempts |-> [j \in 1..Len(atts) |->
                          IF j = i THEN "ok"
                          ELSE IF atts[j] = "pending" THEN "cancelled" ELSE atts[j]],
          result |-> "ok"]
    ELSE LET a == [atts EXCEPT ![i] = "err"] IN
         [attempts |-> a,
          result |-> IF \E j \in 1..Len(a) : a[j] = "pending" THEN "pending" ELSE "err"]

MapErrFailsEarly(result, i) ==
    CASE result = "ok"  -> OkOutcome(opCalls[i].addr, i)
      [] OTHER          -> ErrOutcome(ErrAllFailed, 0)

MapErrKeepsError(result, i) ==
    CASE result = "ok"  -> OkOutcome(opCalls[i].addr, i)
      [] result = "err" -> ErrOutcome(ErrSocketOp, i)
      [] OTHER          -> NoOutcome

\* select_all_ok(futs).map_err(|_| io::Error::new(.., "all of the ..")).boxed()
MapErr(result, i) ==
    CASE result = "ok"  -> OkOutcome(opCalls[i].addr, i)
      [] result = "err" -> ErrOutcome(ErrAllFailed, 0)
      [] OTHER          -> NoOutcome

\* the resolver future succeeds with ips and func hands the attempts to
\* select_all_ok, whatever their number
ResolveOkPar ==
    /\ pc = "resolving"
    /\ entry = "tcp_connect_par"
    /\ \E ips \in AddrLists :
        LET futs == Futs(ips) IN
        /\ addrs' = ips
        /\ resolution' = "ok"
        /\ opCalls' = opCalls \o
              [i \in 1..Len(futs) |-> Invocation(SocketAddrNew(futs[i], ep.port))]
        /\ attempts' = attempts \o [i \in 1..Len(futs) |-> "pending"]
        /\ selectCalls' = Append(selectCalls, Len(futs))
    /\ pc' = "racing"
    /\ UNCHANGED <<entry, ep, opResult, resolverCalls, continuations, outcome>>

\* one of the raced attempts completes
ParAttemptComplete ==
    /\ pc = "racing"
    /\ \E i \in 1..Len(attempts) :
        /\ attempts[i] = "pending"
        /\ LET s == SelectAllOk(attempts, i, opResult[i]) IN
           /\ attempts' = s.attempts
           /\ outcome' = MapErr(s.result, i)
           /\ pc' = IF s.result = "pending" THEN "racing" ELSE "done"
    /\ UNCHANGED <<entry, ep, opResult, resolverCalls, addrs, opCalls,
                   continuations, selectCalls, resolution>>

\* select_all_ok was handed no attempt at all: it aborts the call, or it
\* fails at once and map_err turns that into the all-failed error, or (no
\* step) it never completes
SelectAllOkEmpty ==
    /\ pc = "racing"
    /\ attempts = <<>>
    /\ \/ /\ pc' = "panicked"
          /\ outcome' = outcome
       \/ /\ pc' = "done"
          /\ outcome' = MapErr("err", 0)
    /\ UNCHANGED <<entry, ep, opResult, resolverCalls, addrs, opCalls, attempts,
                   continuations, selectCalls, resolution>>

(* ---------------------------------------------------------------------- *)
(* Specification                                                           *)
(* ---------------------------------------------------------------------- *)

Next ==
    \/ IfHostResolveErr
    \/ IfHostResolveHost
    \/ IfHostResolveSocketAddr
    \/ DirectComplete
    \/ ResolveErr
    \/ ResolveOkSeq
    \/ SeqAttemptComplete
    \/ ResolveOkPar
    \/ ParAttemptComplete
    \/ SelectAllOkEmpty

Spec == Init /\ [][Next]_vars

\* the reactor keeps driving the call: the resolver future and every started
\* attempt complete, and a step that can be taken is taken
FairSpec == Spec /\ WF_vars(Next)

TypeOK ==
    /\ entry \in EntryPoints
    /\ ep \in Endpoint
    /\ pc \in {"start", "resolving", "direct", "chain", "racing", "done", "panicked"}
    /\ resolution \in {"none", "ok", "err"}
    /\ addrs \in AddrLists
    /\ Len(opCalls) = Len(attempts)
    /\ \A i \in 1..Len(attempts) : attempts[i] \in {"pending", "ok", "err", "cancelled"}
    /\ outcome.kind \in {"none", "ok", "err"}

(* ---------------------------------------------------------------------- *)
(* Properties                                                              *)
(* ---------------------------------------------------------------------- *)

IsSeq == entry \in SeqEntryPoints

IsPar == entry = "tcp_connect_par"

\* the resolver answered a host endpoint with at least one address
ResolvedSome == ep.tag = "Host" /\ resolution = "ok" /\ Len(addrs) >= 1

\* the resolver answered a host endpoint with no address
ResolvedNone == ep.tag = "Host" /\ resolution = "ok" /\ addrs = <<>>

\* the invocation the i-th resolved address is due
Due(i) == [op |-> OpOf(entry), addr |-> SocketAddrNew(addrs[i], ep.port)]

Pending == {i \in 1..Len(attempts) : attempts[i] = "pending"}

\* the first address of the list whose socket operation succeeds, 0 if none
FirstOk ==
    IF \E k \in 1..Len(addrs) : opResult[k] = "ok"
    THEN CHOOSE k \in 1..Len(addrs) :
            opResult[k] = "ok" /\ \A j \in 1..(k - 1) : opResult[j] = "err"
    ELSE 0

AllFail == \A i \in 1..Len(addrs) : opResult[i] = "err"

\* C1: with an endpoint that normalizes to a literal socket address the
\* resolver is never invoked, whatever the entry point: the resolver call
\* counter is zero in every state of the call.
C1_LiteralNeverResolves ==
    ep.tag = "SocketAddr" => Len(resolverCalls) = 0

C1_Witness ==
    /\ ep.tag = "SocketAddr"
    /\ pc = "done"
    /\ Len(opCalls) = 1
    /\ Len(resolverCalls) = 0

\* C2: in the sequential strategy with N >= 1 resolved addresses of which the
\* k-th is the first whose operation succeeds, the operation is invoked on
\* addresses 1..k in order and on no other, and the completed call has made
\* exactly k invocations and carries the success of the k-th attempt.
C2_SeqStopsAtFirstSuccess ==
    (IsSeq /\ ResolvedSome /\ FirstOk # 0) =>
        /\ Len(opCalls) <= FirstOk
        /\ \A i \in 1..Len(opCalls) : opCalls[i] = Due(i)
        /\ pc = "done" =>
              /\ Len(opCalls) = FirstOk
              /\ outcome = OkOutcome(SocketAddrNew(addrs[FirstOk], ep.port), FirstOk)

C2_Witness ==
    /\ IsSeq /\ ResolvedSome
    /\ Len(addrs) = 3
    /\ FirstOk = 2
    /\ pc = "done"
    /\ Len(opCalls) = 2
    /\ outcome.kind = "ok"

\* C3: in the sequential strategy at most one attempt is in flight in every
\* state, the attempts are started in the order of the resolver's list, and
\* every attempt but the latest has completed with a failure.
C3_SeqOneAtATime ==
    (IsSeq /\ ep.tag = "Host") =>
        /\ Cardinality(Pending) <= 1
        /\ Len(opCalls) <= Len(addrs)
        /\ \A i \in 1..Len(opCalls) : opCalls[i] = Due(i)
        /\ \A i \in 1..(Len(attempts) - 1) : attempts[i] = "err"

C3_Witness ==
    /\ IsSeq /\ ResolvedSome
    /\ Len(attempts) = 3
    /\ attempts[1] = "err" /\ attempts[2] = "err" /\ attempts[3] = "pending"

\* C4: the parallel strategy with N >= 1 resolved addresses starts N
\* attempts, the i-th on the i-th address, and in every state where one of
\* them has succeeded the call is complete with that success, whatever the
\* other attempts have done or would have done.
C4_ParStartsAllFirstSuccessWins ==
    (IsPar /\ ResolvedSome) =>
        /\ Len(opCalls) = Len(addrs)
        /\ \A i \in 1..Len(opCalls) : opCalls[i] = Due(i)
        /\ \A i \in 1..Len(attempts) :
              attempts[i] = "ok" =>
                  /\ pc = "done"
                  /\ outcome = OkOutcome(SocketAddrNew(addrs[i], ep.port), i)

C4_Witness ==
    /\ IsPar /\ ResolvedSome
    /\ Len(addrs) = 3
    /\ attempts = <<"err", "ok", "cancelled">>
    /\ opResult[3] = "err"
    /\ outcome.kind = "ok"

\* C5: in the parallel strategy the call never has delivered its outcome
\* while one of its attempts is still running: the attempts pending when
\* one succeeds are cancelled in the step that completes the call.
C5_ParNoAttemptOutlivesCall ==
    (IsPar /\ outcome # NoOutcome) => Pending = {}

C5_Witness ==
    /\ IsPar /\ ResolvedSome
    /\ outcome.kind = "ok"
    /\ outcome.attempt = 1
    /\ Len(attempts) = 3
    /\ attempts[2] = "cancelled" /\ attempts[3] = "cancelled"

\* C6: in the sequential strategy a resolution that succeeds with an empty
\* list completes the call with the "resolve returned no addresses" failure
\* and no socket operation is invoked.
C6_SeqEmptyNoAddresses ==
    (IsSeq /\ ResolvedNone) =>
        /\ opCalls = <<>>
        /\ pc = "done"
        /\ outcome = ErrOutcome(ErrNoAddresses, 0)

C6_Witness ==
    /\ IsSeq /\ ResolvedNone
    /\ pc = "done"
    /\ outcome.error = ErrNoAddresses

\* C7: in the parallel strategy a resolution that succeeds with an empty
\* list yields the "no addresses" failure, not the all-failed one, with no
\* socket operation invoked, and select_all_ok is never called with an empty
\* set of attempts.
C7_ParEmptyNoAddresses ==
    (IsPar /\ ResolvedNone) =>
        /\ opCalls = <<>>
        /\ \A i \in 1..Len(selectCalls) : selectCalls[i] >= 1
        /\ pc = "done" => outcome = ErrOutcome(ErrNoAddresses, 0)

C9_ParAllFailedIffAllReported ==
    (IsPar /\ ResolvedSome) =>
        /\ (outcome = ErrOutcome(ErrAllFailed, 0))
              <=> (\A i \in 1..Len(addrs) : i <= Len(attempts) /\ attempts[i] = "err")
        /\ outcome.kind = "err" => (outcome.error = ErrAllFailed /\ Pending = {})

C9_Witness ==
    /\ IsPar /\ ResolvedSome
    /\ Len(addrs) = 3
    /\ attempts = <<"err", "err", "err">>
    /\ pc = "done"
    /\ outcome.error = ErrAllFailed

\* C10: for either strategy and N >= 1 resolved addresses, when the socket
\* operation succeeds on at least one of them the call never carries a
\* failure, and the completed call carries a success.
C10_OneSuccessSuffices ==
    (ResolvedSome /\ ~AllFail) =>
        /\ outcome.kind # "err"
        /\ pc = "done" => outcome.kind = "ok"

C10_Witness ==
    /\ IsSeq /\ ResolvedSome
    /\ Len(addrs) = 3
    /\ attempts = <<"err", "err", "ok">>
    /\ pc = "done"
    /\ outcome.kind = "ok"

\* C11: with a literal socket-address endpoint every entry point invokes its
\* own socket operation exactly once, on exactly that address, and the
\* completed call carries that operation's result unchanged: its socket on
\* success, its own error on failure.
C11_LiteralDirectOnce ==
    ep.tag = "SocketAddr" =>
        /\ pc = "start" => opCalls = <<>>
        /\ pc # "start" =>
              opCalls = <<[op |-> OpOf(entry), addr |-> [ip |-> ep.ip, port |-> ep.port]]>>
        /\ pc = "done" =>
              outcome = IF opResult[1] = "ok"
                        THEN OkOutcome([ip |-> ep.ip, port |-> ep.port], 1)
                        ELSE ErrOutcome(ErrSocketOp, 1)

C11_Witness ==
    /\ ep.tag = "SocketAddr"
    /\ entry = "udp_bind_seq"
    /\ pc = "done"
    /\ opCalls = <<[op |-> "udp_bind", addr |-> [ip |-> ep.ip, port |-> ep.port]]>>
    /\ outcome = ErrOutcome(ErrSocketOp, 1)

\* C12: when to_endpoint fails the call completes with that failure in its
\* first step and does nothing else: neither the resolver nor a socket
\* operation is ever invoked.
C12_MalformedEndpointNoWork ==
    ep.tag = "Err" =>
        /\ Len(resolverCalls) = 0
        /\ Len(opCalls) = 0
        /\ pc \in {"start", "done"}
        /\ pc = "done" => outcome = ErrOutcome(ErrToEndpoint, 0)

C12_Witness ==
    /\ ep.tag = "Err"
    /\ pc = "done"
    /\ outcome.error = ErrToEndpoint
    /\ Len(resolverCalls) + Len(opCalls) = 0

\* C13: when the resolver fails on a host endpoint the call carries that
\* same failure, no socket operation has been invoked, no chain has been
\* built and select_all_ok has not been called.
C13_ResolveFailurePropagates ==
    (ep.tag = "Host" /\ resolution = "err") =>
        /\ pc = "done"
        /\ outcome = ErrOutcome(ErrResolve, 0)
        /\ opCalls = <<>>
        /\ continuations = <<>>
        /\ selectCalls = <<>>

C13_Witness ==
    /\ ep.tag = "Host"
    /\ resolution = "err"
    /\ resolverCalls = <<ep.host>>
    /\ outcome.error = ErrResolve

\* C14: when the resolver invocation and every started attempt eventually
\* complete, every call eventually produces an outcome, for either strategy
\* and either endpoint variant.
C14_EventuallyOutcome == <>(outcome # NoOutcome)

\* the attempts whose socket the socket layer handed over
Succeeded == {i \in 1..Len(attempts) : attempts[i] = "ok"}

\* C15: a call produces at most one outcome: once the outcome is set no step
\* changes it, and a successful outcome is the socket of the one attempt
\* that completed with success, also when several attempts of the parallel
\* strategy would succeed.
C15_SingleOutcome ==
    /\ [][outcome # NoOutcome => outcome' = outcome]_vars
    /\ [](outcome.kind = "ok" =>
            /\ Succeeded = {outcome.attempt}
            /\ outcome.addr = opCalls[outcome.attempt].addr)
    /\ [](outcome.kind # "ok" => Succeeded = {})

C15_Witness ==
    /\ IsPar /\ ResolvedSome
    /\ opResult[1] = "ok" /\ opResult[2] = "ok" /\ opResult[3] = "ok"
    /\ attempts = <<"cancelled", "ok", "cancelled">>
    /\ outcome.kind = "ok"
    /\ outcome.attempt = 2

\* the addresses of a sequence of invocations
AddrsOf(calls) == [i \in 1..Len(calls) |-> calls[i].addr]

\* the socket operations a sequence of invocations uses
OpsOf(calls) == {calls[i].op : i \in 1..Len(calls)}

\* C16: tcp_connect_seq, tcp_listen_seq and udp_bind_seq run the same
\* control logic: on the resolved list and the socket answers of a completed
\* sequential call, each of the three functions makes the invocations the
\* call made, on the same addresses in the same order, and ends with the
\* call's outcome; they differ only in the socket operation they invoke.
C16_SeqFunctionsAgree ==
    (IsSeq /\ ep.tag = "Host" /\ resolution = "ok" /\ pc = "done") =>
        LET c == TcpConnectSeqFunc(addrs, ep.port, opResult)
            l == TcpListenSeqFunc(addrs, ep.port, opResult)
            u == UdpBindSeqFunc(addrs, ep.port, opResult)
        IN  /\ AddrsOf(c.calls) = AddrsOf(opCalls)
            /\ AddrsOf(l.calls) = AddrsOf(opCalls)
            /\ AddrsOf(u.calls) = AddrsOf(opCalls)
            /\ c.outcome = outcome /\ l.outcome = outcome /\ u.outcome = outcome
            /\ OpsOf(c.calls) \subseteq {"tcp_connect"}
            /\ OpsOf(l.calls) \subseteq {"tcp_listen"}
            /\ OpsOf(u.calls) \subseteq {"udp_bind"}
            /\ OpsOf(opCalls) \subseteq {OpOf(entry)}

C16_Witness ==
    /\ entry = "tcp_listen_seq"
    /\ ResolvedSome
    /\ pc = "done"
    /\ attempts = <<"err", "ok">>
    /\ Len(addrs) = 3
    /\ UdpBindSeqFunc(addrs, ep.port, opResult).outcome = outcome

\* the class of an outcome: success, or the kind of its failure
OutcomeClass(o) == IF o.kind = "ok" THEN "success" ELSE o.error

\* the class of outcome the inputs of the call determine: the entry point,
\* the normalized endpoint, the resolver's answer and the socket answers
ExpectedClass ==
    CASE ep.tag = "Err" -> ErrToEndpoint
      [] ep.tag = "SocketAddr" -> IF opResult[1] = "ok" THEN "success" ELSE ErrSocketOp
      [] ep.tag = "Host" /\ resolution # "ok" -> ErrResolve
      [] ep.tag = "Host" /\ resolution = "ok" /\ addrs = <<>> ->
            IF IsSeq THEN ErrNoAddresses ELSE ErrAllFailed
      [] ep.tag = "Host" /\ resolution = "ok" /\ addrs # <<>> ->
            IF ~AllFail THEN "success"
            ELSE IF IsSeq THEN ErrSocketOp ELSE ErrAllFailed

\* C17: the class of outcome of a completed call is a function of its
\* inputs alone, so repeating the call with the same resolver answer and
\* the same socket answers gives the same class each time; in the parallel
\* strategy this holds whatever the order in which the attempts complete.
C17_OutcomeClassDetermined ==
    pc = "done" => OutcomeClass(outcome) = ExpectedClass

C17_Witness ==
    /\ IsPar /\ ResolvedSome
    /\ Len(addrs) = 2
    /\ opResult[1] = "err" /\ opResult[2] = "ok"
    /\ attempts = <<"cancelled", "ok">>
    /\ pc = "done"
    /\ OutcomeClass(outcome) = "success"

\* the ips the resolver returned
ResolvedIps == {addrs[i] : i \in 1..Len(addrs)}

\* C18 as stated: for a host endpoint every invocation targets (ip, port)
\* with ip in the resolver's list and port the endpoint's port, and no two
\* attempts target the same resolved ip.
C18_EachIpAtMostOnce ==
    ep.tag = "Host" =>
        /\ \A i \in 1..Len(opCalls) :
              /\ opCalls[i].addr.ip \in ResolvedIps
              /\ opCalls[i].addr.port = ep.port
        /\ \A i, j \in 1..Len(opCalls) :
              i # j => opCalls[i].addr.ip # opCalls[j].addr.ip

\* C18 amended: for a host endpoint the i-th invocation targets the i-th
\* entry of the resolver's list combined with the endpoint's port, so no
\* attempt targets an address outside the list and each entry of the list
\* is the target of at most one attempt; an ip the list holds several times
\* is attempted once per occurrence.
C18_EachEntryAtMostOnce ==
    ep.tag = "Host" =>
        /\ Len(opCalls) <= Len(addrs)
        /\ \A i \in 1..Len(opCalls) :
              opCalls[i].addr = [ip |-> addrs[i], port |-> ep.port]

C18_Witness ==
    /\ ep.tag = "Host"
    /\ ep.port = 443
    /\ Len(addrs) = 3
    /\ addrs[1] = addrs[2]
    /\ Len(opCalls) >= 2
    /\ opCalls[1].addr = opCalls[2].addr
    /\ opCalls[2].addr.port = 443

\* C19: for a host endpoint the resolver is invoked exactly once, with the
\* endpoint's host name, in the first step of the call, and a socket
\* operation is invoked only once that resolution has succeeded.
C19_ResolveOnceBeforeAnyAttempt ==
    ep.tag = "Host" =>
        /\ pc = "start" => resolverCalls = <<>>
        /\ pc # "start" => resolverCalls = <<ep.host>>
        /\ opCalls # <<>> => resolution = "ok"
        /\ resolution # "ok" => (attempts = <<>> /\ selectCalls = <<>>)

C19_Witness ==
    /\ ep.tag = "Host"
    /\ resolverCalls = <<"example.test">>
    /\ resolution = "ok"
    /\ Len(opCalls) = 1
    /\ pc = "chain"

\* C20: in the sequential strategy with N >= 1 resolved addresses, a call
\* that fails carries the error of the N-th attempt itself: every attempt
\* has failed, the errors of attempts 1..N-1 are gone, and the error is
\* neither the all-failed nor the no-addresses error.
C20_SeqFailureIsLastAttempts ==
    (IsSeq /\ ResolvedSome /\ outcome.kind = "err") =>
        /\ Len(attempts) = Len(addrs)
        /\ \A i \in 1..Len(attempts) : attempts[i] = "err"
        /\ outcome.attempt = Len(addrs)
        /\ outcome.error = ErrSocketOp
        /\ outcome.error \notin {ErrAllFailed, ErrNoAddresses}

C20_Witness ==
    /\ entry = "tcp_listen_seq"
    /\ ResolvedSome
    /\ Len(addrs) = 2
    /\ attempts = <<"err", "err">>
    /\ outcome = ErrOutcome(ErrSocketOp, 2)

====
